---- MODULE Spec2Model ----
(***************************************************************************)
(* A model of grid1q: the plane-wave Hamiltonian operators                 *)
(* (operators/plane_wave.py), the truncated Fourier transforms             *)
(* (utils/fourier_methods/fourier.py) and the plane-wave functional        *)
(* (wavefunctions/plane_wave.py).                                          *)
(*                                                                         *)
(* Floating-point values are modelled by exact values:                     *)
(*  - a potential matrix element is a finite sum of terms q * exp(-i*p),   *)
(*    p an integer phase and q a rational, in units of 4*pi;               *)
(*  - a Fourier sample is an element of the cyclotomic field Q(zeta_M);    *)
(*  - a kinetic entry is a rational;                                       *)
(*  - a value of a plane wave is a Gaussian integer, the coordinates of    *)
(*    the points being multiples of 1/2.                                   *)
(***************************************************************************)
EXTENDS Integers, Sequences, FiniteSets

VARIABLES
    \* elec_nuc_potential / kenetic: the arguments of the call
    k_points, r_pos, cell_area,
    \* elec_nuc_potential: the locals of the call and what the caller gets
    pc, args_list, pending, results, first_exc, mat, writes, pos, ret, err,
    \* dft / idft: the arguments, the arrays returned, the frequencies whose
    \* term dft evaluated, the exception raised and where the round trip is
    signal, k_min, k_max, fpc, truncated_dft_result, freqs, reconstructed_signal,
    ferr,
    \* dft2 / idft2: the grid, the 2D spectrum and the grid reconstructed
    signal_2d, truncated_dft_2d, reconstructed_2d,
    \* plane_wave: the coefficients, the argument r of the function returned,
    \* what the function gives and where the call is
    coeffs_dict, r, pw, wpc,
    \* kenetic: the arguments besides k_points, the matrix returned and where
    \* the call is
    hbar, m, kin, kpc

potVars == <<k_points, r_pos, cell_area, pc, args_list, pending, results,
             first_exc, mat, writes, pos, ret, err>>

dftVars == <<signal, k_min, k_max, fpc, truncated_dft_result, freqs,
             reconstructed_signal, ferr, signal_2d, truncated_dft_2d,
             reconstructed_2d>>

pwVars == <<coeffs_dict, r, pw, wpc>>

kinVars == <<hbar, m, kin, kpc>>

vars == <<potVars, dftVars, pwVars, kinVars>>

nonPotVars == <<dftVars, pwVars, kinVars>>

nonDftVars == <<potVars, pwVars, kinVars>>

nonPwVars == <<potVars, dftVars, kinVars>>

nonKinVars == <<dftVars, pwVars, pc, args_list, pending, results, first_exc,
                mat, writes, pos, ret, err, r_pos, cell_area>>

----------------------------------------------------------------------------
(* Bounds of the model *)

\* the largest number of k-points of a k-point set
MaxPts == 2
\* the largest number of nuclei
MaxNuc == 2

\* the largest length of a signal
MaxLen == 3
\* the largest side of a square grid
MaxGrid == 2

\* the dimensions of the k-points
KDims == {1}
\* the dimensions of nuclear positions that do not fit the k-points
OtherDims == {2}
\* the components of a k-point
KVals == {0, 1}
\* the coordinates of a nucleus (floats with an integer value)
PosVals == {0, 1}
\* the complex samples of a signal, <<re, im>>
SigVals == {<<0, 0>>, <<1, 0>>, <<-1, 2>>}
\* the first frequencies k_min of a window
KMins == {-1, 0, 1}
\* the complex samples of a grid, <<re, im>>
GridVals == {<<1, 0>>, <<0, 1>>}
\* the first frequencies k_min of the window of a grid
GridKMins == {0, 1}
\* the cell areas (0 is not a valid area, but the code accepts it)
CellAreas == {0, 1, 2}

\* the largest number of keys of coeffs_dict
MaxTerms == 2
\* the largest number of entries of the array r
MaxSize == 4

\* the lengths of the keys of coeffs_dict
KeyDims == {1, 2}
\* the components of a key
KeyVals == {0, 1}
\* the coefficients, <<re, im>>
CoefVals == {<<1, 0>>, <<-1, 2>>}
\* the numbers of axes of r
Ranks == {1, 2, 3}
\* the entries of r, as numbers of halves: the floats 0.0 and 0.5
RVals == {0, 1}

\* the dimensions of the k-points given to kenetic
KinDims == {1, 2}
\* hbar and m (floats with an integer value; the mass is positive)
HbarVals == {1, 2}
MassVals == {1, 2}

----------------------------------------------------------------------------
(* Helpers: integer arithmetic and vectors *)

Abs(x) == IF x < 0 THEN -x ELSE x

RECURSIVE Gcd(_, _)
Gcd(a, b) == IF b = 0 THEN Abs(a) ELSE Gcd(b, a % b)

RECURSIVE GcdSet(_)
GcdSet(S) ==
    IF S = {} THEN 0
    ELSE LET x == CHOOSE y \in S : TRUE IN Gcd(x, GcdSet(S \ {x}))

\* all sequences over S of a length in 0..n
SeqsUpTo(S, n) == UNION {[1..len -> S] : len \in 0..n}

\* k_bra - k_ket on arrays of one shape
VecSub(a, b) == [x \in 1..Len(a) |-> a[x] - b[x]]

RECURSIVE DotFrom(_, _, _)
DotFrom(a, b, x) == IF x > Len(a) THEN 0 ELSE a[x] * b[x] + DotFrom(a, b, x + 1)

\* np.dot of two vectors of one length
Dot(a, b) == DotFrom(a, b, 1)

\* np.linalg.norm(d) ** 2
NormSq(d) == Dot(d, d)

----------------------------------------------------------------------------
(* Values of potential matrix elements.                                    *)
(* [terms |-> f, den |-> d] is (4*pi/d) * SUM over p in DOMAIN f of        *)
(* f[p] * exp(-i*p); f has no zero value and gcd(values of f, d) = 1.      *)
(* den = 0 is a value that is not finite (a division by 0.0 gave inf).     *)

EmptyTerms == [p \in {} |-> 0]

PZero == [terms |-> EmptyTerms, den |-> 1]

PNonFinite == [terms |-> EmptyTerms, den |-> 0]

PNormal(f, d) ==
    LET S == {p \in DOMAIN f : f[p] # 0}
        g == Gcd(GcdSet({f[p] : p \in S}), d)
    IN  IF S = {} THEN PZero
        ELSE [terms |-> [p \in S |-> f[p] \div g], den |-> d \div g]

Coef(a, p) == IF p \in DOMAIN a.terms THEN a.terms[p] ELSE 0

\* a + b
PAdd(a, b) ==
    IF a.den = 0 \/ b.den = 0 THEN PNonFinite
    ELSE PNormal([p \in DOMAIN a.terms \cup DOMAIN b.terms |->
                     Coef(a, p) * b.den + Coef(b, p) * a.den],
                 a.den * b.den)

\* the complex conjugate: exp(-i*p) becomes exp(-i*(-p))
PConj(a) ==
    [terms |-> [p \in {-q : q \in DOMAIN a.terms} |-> a.terms[-p]], den |-> a.den]

\* ((4*pi) / denom) * exp(-1j * phase); a zero denominator gives inf
PTerm(denom, phase) ==
    IF denom = 0 THEN PNonFinite
    ELSE [terms |-> [p \in {phase} |-> 1], den |-> denom]

----------------------------------------------------------------------------
(* operators/plane_wave.py: elec_nuc_potential_element *)

\* The state of the loop over r_pos: the accumulated mat_element, the
\* denominators cell_area * norm ** 2 the loop has divided by, and the
\* exception that ended it ("none" while it runs).
ElemStart == [val |-> PZero, divs |-> <<>>, exc |-> "none"]

\* ElemStep without the special case of equal k-points
ElemStepNoGuard(st, k_bra, k_ket, r_nuc, area) ==
    LET d == VecSub(k_bra, k_ket)
        denom == area * NormSq(d)
        divided == [st EXCEPT !.divs = Append(@, denom)]
    IN  IF Len(r_nuc) # Len(d)
        THEN [divided EXCEPT !.exc = "ValueError"]
        ELSE [divided EXCEPT !.val = PAdd(@, PTerm(denom, Dot(d, r_nuc)))]

\* ElemStep with the phase of the ket alone, exp(-1j * np.dot(k_ket, r))
ElemStepKetPhase(st, k_bra, k_ket, r_nuc, area) ==
    IF k_bra = k_ket
    THEN [st EXCEPT !.val = PZero]
    ELSE LET d == VecSub(k_bra, k_ket)
             denom == area * NormSq(d)
             divided == [st EXCEPT !.divs = Append(@, denom)]
         IN  IF Len(r_nuc) # Len(d)
             THEN [divided EXCEPT !.exc = "ValueError"]
             ELSE [divided EXCEPT !.val = PAdd(@, PTerm(denom, Dot(k_ket, r_nuc)))]

\* One pass of the loop body for the nucleus at r_nuc.
ElemStep(st, k_bra, k_ket, r_nuc, area) ==
    IF k_bra = k_ket
    THEN [st EXCEPT !.val = PZero]
    ELSE LET d == VecSub(k_bra, k_ket)
             denom == area * NormSq(d)
             divided == [st EXCEPT !.divs = Append(@, denom)]
         IN  IF Len(r_nuc) # Len(d)
             \* np.dot of vectors of different lengths raises ValueError
             THEN [divided EXCEPT !.exc = "ValueError"]
             ELSE [divided EXCEPT !.val = PAdd(@, PTerm(denom, Dot(d, r_nuc)))]

RECURSIVE ElemLoop(_, _, _, _, _)
ElemLoop(st, k_bra, k_ket, rs, area) ==
    IF rs = <<>> \/ st.exc # "none" THEN st
    ELSE ElemLoop(ElemStep(st, k_bra, k_ket, Head(rs), area),
                  k_bra, k_ket, Tail(rs), area)

\* args is <<i, j, k_bra, k_ket, r_pos, cell_area>>; the result is the
\* returned (i, j, mat_element), or the exception raised.
elec_nuc_potential_element(args) ==
    LET st == ElemLoop(ElemStart, args[3], args[4], args[5], args[6])
    IN  [i |-> args[1], j |-> args[2], val |-> st.val, divs |-> st.divs,
         exc |-> st.exc]

----------------------------------------------------------------------------
(* operators/plane_wave.py: elec_nuc_potential *)

Idx(kp) == 0 .. (Len(kp) - 1)

\* np.zeros((len(k_points), len(k_points)), dtype=complex)
ZeroMat(kp) == [c \in Idx(kp) \X Idx(kp) |-> PZero]

\* ArgsList with the work halved by symmetry: the items with j < i carry
\* the pair (j, i) again, and no item is made for (i, j)
ArgsListUpper(kp, rp, area) ==
    [t \in 1 .. (Len(kp) * Len(kp)) |->
        LET i == (t - 1) \div Len(kp)
            j == (t - 1) % Len(kp)
            lo == IF i < j THEN i ELSE j
            hi == IF i < j THEN j ELSE i
        IN  <<lo, hi, kp[lo + 1], kp[hi + 1], rp, area>>]

\* the two loops over enumerate(k_points): the item of (i, j) is appended
\* at list position i * n + j (counted from 1 here)
ArgsList(kp, rp, area) ==
    [t \in 1 .. (Len(kp) * Len(kp)) |->
        LET i == (t - 1) \div Len(kp)
            j == (t - 1) % Len(kp)
        IN  <<i, j, kp[i + 1], kp[j + 1], rp, area>>]

NoResult == [i |-> 0, j |-> 0, val |-> PZero, divs |-> <<>>, exc |-> "pending"]

\* elec_nuc_potential is not running
PotIdle ==
    /\ k_points = <<>>
    /\ r_pos = <<>>
    /\ cell_area = 0
    /\ pc = "idle"
    /\ args_list = <<>>
    /\ pending = {}
    /\ results = <<>>
    /\ first_exc = "none"
    /\ mat = <<>>
    /\ writes = <<>>
    /\ pos = 0
    /\ ret = <<>>
    /\ err = "none"

\* plane_wave is not running
PwIdle ==
    /\ coeffs_dict = <<>>
    /\ r = [shape |-> <<>>, data |-> <<>>]
    /\ pw = [exc |-> "none", shape |-> <<>>, data |-> <<>>]
    /\ wpc = "idle"

\* kenetic is not running
KinIdle ==
    /\ hbar = 0
    /\ m = 0
    /\ kin = <<>>
    /\ kpc = "idle"

\* no transform is running
DftIdle ==
    /\ signal = <<>>
    /\ k_min = 0
    /\ k_max = 0
    /\ fpc = "idle"
    /\ truncated_dft_result = <<>>
    /\ freqs = <<>>
    /\ reconstructed_signal = <<>>
    /\ ferr = "none"
    /\ signal_2d = <<>>
    /\ truncated_dft_2d = <<>>
    /\ reconstructed_2d = <<>>

\* the k-point sets: sequences of vectors of one dimension
KPointSets == UNION {SeqsUpTo([1..D -> KVals], MaxPts) : D \in KDims}

\* the nuclear position sets: an array of vectors of one dimension. Positions
\* of a dimension that does not fit the k-points are all at the origin: their
\* coordinates are never read.
RPosSets ==
    (UNION {SeqsUpTo([1..D -> PosVals], MaxNuc) : D \in KDims})
    \cup (UNION {SeqsUpTo({[x \in 1..D |-> 0]}, MaxNuc) : D \in OtherDims})

InitPot ==
    /\ k_points \in KPointSets
    /\ r_pos \in RPosSets
    /\ cell_area \in CellAreas
    /\ pc = "start"
    /\ args_list = <<>>
    /\ pending = {}
    /\ results = <<>>
    /\ first_exc = "none"
    /\ mat = <<>>
    /\ writes = <<>>
    /\ pos = 0
    /\ ret = <<>>
    /\ err = "none"
    /\ DftIdle
    /\ PwIdle
    /\ KinIdle

\* lines 83-98: the zero matrix and the list of work items
BuildArgs ==
    /\ pc = "start"
    /\ mat' = ZeroMat(k_points)
    /\ writes' = [c \in Idx(k_points) \X Idx(k_points) |-> 0]
    /\ args_list' = ArgsList(k_points, r_pos, cell_area)
    /\ pending' = DOMAIN ArgsList(k_points, r_pos, cell_area)
    /\ results' = [t \in DOMAIN ArgsList(k_points, r_pos, cell_area) |-> NoResult]
    /\ pc' = "map"
    /\ UNCHANGED <<k_points, r_pos, cell_area, first_exc, pos, ret, err>>
    /\ UNCHANGED nonPotVars

\* lines 100-101: a worker finishes work item t, in any order; pool.map keeps
\* the result at the item's place and keeps the first exception to arrive.
Complete(t) ==
    /\ pc = "map"
    /\ t \in pending
    /\ LET res == elec_nuc_potential_element(args_list[t])
       IN  /\ results' = [results EXCEPT ![t] = res]
           /\ first_exc' = IF first_exc = "none" THEN res.exc ELSE first_exc
    /\ pending' = pending \ {t}
    /\ UNCHANGED <<k_points, r_pos, cell_area, pc, args_list, mat, writes, pos, ret, err>>
    /\ UNCHANGED nonPotVars

\* MapReturns with the failures of the workers dropped
MapReturnsAnyway ==
    /\ pc = "map"
    /\ pending = {}
    /\ pc' = "collect"
    /\ pos' = 1
    /\ UNCHANGED <<k_points, r_pos, cell_area, args_list, pending, results,
                   first_exc, mat, writes, ret, err>>
    /\ UNCHANGED nonPotVars

\* line 101: pool.map returns the list of results once every item is done
MapReturns ==
    /\ pc = "map"
    /\ pending = {}
    /\ first_exc = "none"
    /\ pc' = "collect"
    /\ pos' = 1
    /\ UNCHANGED <<k_points, r_pos, cell_area, args_list, pending, results,
                   first_exc, mat, writes, ret, err>>
    /\ UNCHANGED nonPotVars

\* line 101: pool.map raises the first exception a worker raised; the call
\* ends there and returns nothing
MapRaises ==
    /\ pc = "map"
    /\ pending = {}
    /\ first_exc # "none"
    /\ pc' = "raised"
    /\ err' = first_exc
    /\ UNCHANGED <<k_points, r_pos, cell_area, args_list, pending, results,
                   first_exc, mat, writes, pos, ret>>
    /\ UNCHANGED nonPotVars

\* lines 103-104: mat[i, j] = mat_element for the next result
WriteNext ==
    /\ pc = "collect"
    /\ pos <= Len(results)
    /\ LET res == results[pos]
       IN  /\ mat' = [mat EXCEPT ![<<res.i, res.j>>] = res.val]
           /\ writes' = [writes EXCEPT ![<<res.i, res.j>>] = @ + 1]
    /\ pos' = pos + 1
    /\ UNCHANGED <<k_points, r_pos, cell_area, pc, args_list, pending, results,
                   first_exc, ret, err>>
    /\ UNCHANGED nonPotVars

\* line 106: return mat
Return ==
    /\ pc = "collect"
    /\ pos > Len(results)
    /\ ret' = <<mat>>
    /\ pc' = "returned"
    /\ UNCHANGED <<k_points, r_pos, cell_area, args_list, pending, results,
                   first_exc, mat, writes, pos, err>>
    /\ UNCHANGED nonPotVars

NextPot ==
    \/ BuildArgs
    \/ \E t \in pending : Complete(t)
    \/ MapReturns
    \/ MapRaises
    \/ WriteNext
    \/ Return

SpecPot == InitPot /\ [][NextPot]_vars

----------------------------------------------------------------------------
(* Values of Fourier samples.                                              *)
(* For a signal of length N the samples are written in the field of the    *)
(* M-th roots of unity, M = lcm(4, N), which holds i = zeta^(M/4) and      *)
(* exp(2*pi*i/N) = zeta^(M/N) for zeta = exp(2*pi*i/M). A value            *)
(* [c |-> v, d |-> q] is (v[1] + v[2]*zeta + ... + v[n]*zeta^(n-1)) / q,   *)
(* n the degree of the M-th cyclotomic polynomial; gcd(v, q) = 1, so that  *)
(* equal numbers are equal values.                                         *)

Lcm(a, b) == (a * b) \div Gcd(a, b)

Order(N) == Lcm(4, N)

\* the quotient of the polynomial a by the monic polynomial b (coefficients
\* from the constant term up), for a a multiple of b
RECURSIVE PolyDiv(_, _)
PolyDiv(a, b) ==
    IF Len(a) < Len(b) THEN <<>>
    ELSE LET n == Len(a)
             t == a[n]
             s == n - Len(b)
             a1 == [x \in 1 .. (n - 1) |->
                       a[x] - (IF x > s THEN t * b[x - s] ELSE 0)]
         IN  Append(PolyDiv(a1, b), t)

\* the cyclotomic polynomial of order M: x^M - 1 divided by those of the proper
\* divisors of M
RECURSIVE CycPoly(_)
RECURSIVE DivideOut(_, _)
DivideOut(a, ds) ==
    IF ds = {} THEN a
    ELSE LET d == CHOOSE e \in ds : TRUE
         IN  DivideOut(PolyDiv(a, CycPoly(d)), ds \ {d})

CycPoly(M) ==
    DivideOut([x \in 1 .. (M + 1) |-> IF x = 1 THEN -1 ELSE IF x = M + 1 THEN 1 ELSE 0],
              {d \in 1 .. (M - 1) : M % d = 0})

\* zeta^j as a vector over 1, zeta, ..., zeta^(n-1)
RECURSIVE RootPow(_, _)
RootPow(M, j) ==
    LET phi == CycPoly(M)
        n == Len(phi) - 1
    IN  IF j = 0 THEN [x \in 1..n |-> IF x = 1 THEN 1 ELSE 0]
        ELSE LET v == RootPow(M, j - 1)
                 t == v[n]
             IN  [x \in 1..n |-> (IF x = 1 THEN 0 ELSE v[x - 1]) - t * phi[x]]

\* the lengths of the signals and of the grid sides
Lengths == 1 .. (IF MaxLen > MaxGrid THEN MaxLen ELSE MaxGrid)

\* the powers of zeta for every order in use, computed once
RootTable == [M \in {Order(N) : N \in Lengths} |-> [j \in 0 .. (M - 1) |-> RootPow(M, j)]]

Degree(M) == Len(RootTable[M][0])

RECURSIVE SumTo(_, _)
SumTo(f, n) == IF n = 0 THEN 0 ELSE f[n] + SumTo(f, n - 1)

CNormal(v, q) ==
    LET g == Gcd(GcdSet({v[x] : x \in DOMAIN v}), q)
    IN  [c |-> [x \in DOMAIN v |-> v[x] \div g], d |-> q \div g]

CZero(M) == [c |-> [x \in 1..Degree(M) |-> 0], d |-> 1]

\* the complex number re + im*i
CGauss(M, z) ==
    [c |-> [x \in 1..Degree(M) |->
               z[1] * RootTable[M][0][x] + z[2] * RootTable[M][M \div 4][x]],
     d |-> 1]

CAdd(a, b) ==
    CNormal([x \in DOMAIN a.c |-> a.c[x] * b.d + b.c[x] * a.d], a.d * b.d)

\* a * zeta^j
CMulRoot(M, a, j) ==
    [c |-> [x \in DOMAIN a.c |->
               SumTo([y \in DOMAIN a.c |-> a.c[y] * RootTable[M][(y - 1 + j) % M][x]],
                     Len(a.c))],
     d |-> a.d]

\* a / n
CDiv(a, n) == CNormal(a.c, a.d * n)

\* a * np.exp(sign * 1j * 2 * np.pi * k * n / len), sign = 1 or -1
TimesExp(a, sign, k, n, len) ==
    CMulRoot(Order(len), a, (sign * k * n * (Order(len) \div len)) % Order(len))

----------------------------------------------------------------------------
(* utils/fourier_methods/fourier.py: dft, idft *)

\* lines 25-27: sum_result after the terms n, n+1, ..., len(signal)-1 are
\* added to acc (n counts from 0)
RECURSIVE DftSum(_, _, _, _)
DftSum(sig, k, n, acc) ==
    IF n >= Len(sig) THEN acc
    ELSE DftSum(sig, k, n + 1,
           CAdd(acc, TimesExp(sig[n + 1], -1, k, n, Len(sig))))

\* dft without the division by len(signal)
dftNoNorm(sig, k_lo, k_hi) ==
    IF k_hi - k_lo < 0
    THEN [exc |-> "ValueError", val |-> <<>>, freqs |-> <<>>]
    ELSE [exc |-> "none",
          val |-> [x \in 1 .. (k_hi - k_lo) |->
                     DftSum(sig, k_lo + x - 1, 0, CZero(Order(Len(sig))))],
          freqs |-> [x \in 1 .. (k_hi - k_lo) |-> k_lo + x - 1]]

\* dft with a window of negative width taken as an empty one
dftClamped(sig, k_lo, k_hi) ==
    [exc |-> "none",
     val |-> [x \in 1 .. (k_hi - k_lo) |->
                CDiv(DftSum(sig, k_lo + x - 1, 0, CZero(Order(Len(sig)))),
                     Len(sig))],
     freqs |-> [x \in 1 .. (k_hi - k_lo) |-> k_lo + x - 1]]

\* The result of dft: the exception raised ("none" for a normal return), the
\* array returned and the frequencies k whose term was evaluated.
\* np.zeros of a negative length raises ValueError.
dft(sig, k_lo, k_hi) ==
    IF k_hi - k_lo < 0
    THEN [exc |-> "ValueError", val |-> <<>>, freqs |-> <<>>]
    ELSE [exc |-> "none",
          val |-> [x \in 1 .. (k_hi - k_lo) |->
                     CDiv(DftSum(sig, k_lo + x - 1, 0, CZero(Order(Len(sig)))),
                          Len(sig))],
          freqs |-> [x \in 1 .. (k_hi - k_lo) |-> k_lo + x - 1]]

\* lines 53-57: sum_result after the terms k, k+1, ..., k_max-1 are added
RECURSIVE IdftSum(_, _, _, _, _, _, _)
IdftSum(spectrum, sig_len, k_lo, k_hi, n, k, acc) ==
    IF k >= k_hi THEN acc
    ELSE IdftSum(spectrum, sig_len, k_lo, k_hi, n, k + 1,
                 CAdd(acc, TimesExp(spectrum[k - k_lo + 1], 1, k, n, sig_len)))

\* idft with the frequencies counted from 0 in the exponent, k - k_min for k
RECURSIVE IdftSumFromZero(_, _, _, _, _, _, _)
IdftSumFromZero(spectrum, sig_len, k_lo, k_hi, n, k, acc) ==
    IF k >= k_hi THEN acc
    ELSE IdftSumFromZero(spectrum, sig_len, k_lo, k_hi, n, k + 1,
             CAdd(acc, TimesExp(spectrum[k - k_lo + 1], 1, k - k_lo, n, sig_len)))

idftFromZero(spectrum, sig_len, k_lo, k_hi) ==
    [x \in 1..sig_len |->
        IdftSumFromZero(spectrum, sig_len, k_lo, k_hi, x - 1, k_lo,
                        CZero(Order(sig_len)))]

\* the array idft returns
idft(spectrum, sig_len, k_lo, k_hi) ==
    [x \in 1..sig_len |->
        IdftSum(spectrum, sig_len, k_lo, k_hi, x - 1, k_lo, CZero(Order(sig_len)))]

----------------------------------------------------------------------------
(* utils/fourier_methods/fourier.py: dft2, idft2.                          *)
(* A 2D array is the sequence of its rows.                                 *)

\* a[:, col]
Column(a, col) == [row \in 1..Len(a) |-> a[row][col]]

\* a.T, for an array with at least one row
Transpose(a) == [col \in 1..Len(a[1]) |-> Column(a, col)]

\* dft2 without the final transposition
dft2NoTranspose(grid, k_lo, k_hi) ==
    LET dft_rows == [row \in 1..Len(grid) |-> dft(grid[row], k_lo, k_hi).val]
    IN  [col \in 1..Len(dft_rows[1]) |-> dft(Column(dft_rows, col), k_lo, k_hi).val]

\* the array dft2 returns, for a window of positive width
dft2(grid, k_lo, k_hi) ==
    LET dft_rows == [row \in 1..Len(grid) |-> dft(grid[row], k_lo, k_hi).val]
        dft_columns ==
            [col \in 1..Len(dft_rows[1]) |->
                dft(Column(dft_rows, col), k_lo, k_hi).val]
    IN  Transpose(dft_columns)

\* the array idft2 returns
idft2(spectrum, original_shape, k_lo, k_hi) ==
    LET idft_cols ==
            Transpose([col \in 1..Len(spectrum[1]) |->
                idft(Column(spectrum, col), original_shape[1], k_lo, k_hi)])
    IN  [row \in 1..Len(idft_cols) |->
            idft(idft_cols[row], original_shape[2], k_lo, k_hi)]

----------------------------------------------------------------------------
(* The round trip idft(dft(signal, k_min, k_max), len(signal), k_min, k_max) *)

\* the signals: complex samples, written in the field of their length
Signals ==
    UNION {[1..N -> {CGauss(Order(N), z) : z \in SigVals}] : N \in 1..MaxLen}

\* the windows [k_min, k_max) of a signal of length N: every width from a
\* negative one to two periods
Widths(N) == -1 .. (2 * N)

InitDft ==
    /\ signal \in Signals
    /\ k_min \in KMins
    /\ k_max \in {k_min + w : w \in Widths(Len(signal))}
    /\ fpc = "in"
    /\ truncated_dft_result = <<>>
    /\ freqs = <<>>
    /\ reconstructed_signal = <<>>
    /\ ferr = "none"
    /\ signal_2d = <<>>
    /\ truncated_dft_2d = <<>>
    /\ reconstructed_2d = <<>>
    /\ PotIdle
    /\ PwIdle
    /\ KinIdle

\* dft(signal, k_min, k_max) returns
DftReturns ==
    /\ fpc = "in"
    /\ dft(signal, k_min, k_max).exc = "none"
    /\ truncated_dft_result' = dft(signal, k_min, k_max).val
    /\ freqs' = dft(signal, k_min, k_max).freqs
    /\ fpc' = "dft"
    /\ UNCHANGED <<signal, k_min, k_max, reconstructed_signal, ferr>>
    /\ UNCHANGED <<signal_2d, truncated_dft_2d, reconstructed_2d>>
    /\ UNCHANGED nonDftVars

\* dft(signal, k_min, k_max) raises
DftRaises ==
    /\ fpc = "in"
    /\ dft(signal, k_min, k_max).exc # "none"
    /\ ferr' = dft(signal, k_min, k_max).exc
    /\ freqs' = dft(signal, k_min, k_max).freqs
    /\ fpc' = "raised"
    /\ UNCHANGED <<signal, k_min, k_max, truncated_dft_result, reconstructed_signal>>
    /\ UNCHANGED <<signal_2d, truncated_dft_2d, reconstructed_2d>>
    /\ UNCHANGED nonDftVars

\* idft(truncated_dft_result, len(signal), k_min, k_max) returns
IdftReturns ==
    /\ fpc = "dft"
    /\ reconstructed_signal' = idft(truncated_dft_result, Len(signal), k_min, k_max)
    /\ fpc' = "idft"
    /\ UNCHANGED <<signal, k_min, k_max, truncated_dft_result, freqs, ferr>>
    /\ UNCHANGED <<signal_2d, truncated_dft_2d, reconstructed_2d>>
    /\ UNCHANGED nonDftVars

NextDft ==
    \/ DftReturns
    \/ DftRaises
    \/ IdftReturns

SpecDft == InitDft /\ [][NextDft]_vars

----------------------------------------------------------------------------
(* The round trip idft2(dft2(signal_2d, k_min, k_max), shape, k_min, k_max) *)

\* the square grids of complex samples
Grids ==
    UNION {[1..N -> [1..N -> {CGauss(Order(N), z) : z \in GridVals}]] : N \in 1..MaxGrid}

\* the widths of the windows of an N x N grid: one period, and one more
GridWidths(N) == {N, N + 1}

InitDft2 ==
    /\ signal_2d \in Grids
    /\ k_min \in GridKMins
    /\ k_max \in {k_min + w : w \in GridWidths(Len(signal_2d))}
    /\ fpc = "in2"
    /\ truncated_dft_2d = <<>>
    /\ reconstructed_2d = <<>>
    /\ signal = <<>>
    /\ truncated_dft_result = <<>>
    /\ freqs = <<>>
    /\ reconstructed_signal = <<>>
    /\ ferr = "none"
    /\ PotIdle
    /\ PwIdle
    /\ KinIdle

\* dft2(signal_2d, k_min, k_max) returns
Dft2Returns ==
    /\ fpc = "in2"
    /\ truncated_dft_2d' = dft2(signal_2d, k_min, k_max)
    /\ fpc' = "dft2"
    /\ UNCHANGED <<signal, k_min, k_max, truncated_dft_result, freqs,
                   reconstructed_signal, ferr, signal_2d, reconstructed_2d>>
    /\ UNCHANGED nonDftVars

\* idft2(truncated_dft_2d, signal_2d.shape, k_min, k_max) returns
Idft2Returns ==
    /\ fpc = "dft2"
    /\ reconstructed_2d' =
           idft2(truncated_dft_2d, <<Len(signal_2d), Len(signal_2d[1])>>, k_min, k_max)
    /\ fpc' = "idft2"
    /\ UNCHANGED <<signal, k_min, k_max, truncated_dft_result, freqs,
                   reconstructed_signal, ferr, signal_2d, truncated_dft_2d>>
    /\ UNCHANGED nonDftVars

NextDft2 ==
    \/ Dft2Returns
    \/ Idft2Returns

SpecDft2 == InitDft2 /\ [][NextDft2]_vars

----------------------------------------------------------------------------
(* wavefunctions/plane_wave.py                                             *)
(* An ndarray is its shape and its entries by 0-based multi-index.  An     *)
(* entry of r is a number of halves h (the float h / 2), so that           *)
(* exp(pi * 1j * (k . r)) is the power i^(k . h) and a value of the plane  *)
(* wave is a Gaussian integer <<re, im>>.                                  *)

\* the multi-indices of an array of this shape
IndexSet(shape) ==
    {idx \in [1..Len(shape) -> UNION {0..(shape[a] - 1) : a \in 1..Len(shape)}] :
        \A a \in 1..Len(shape) : idx[a] < shape[a]}

\* the shape, or the multi-index, without its axis number ax (counted from 1)
RemoveAxis(s, ax) == [a \in 1..(Len(s) - 1) |-> IF a < ax THEN s[a] ELSE s[a + 1]]

\* the multi-index idx with the index t put in as axis number ax
InsertAxis(idx, ax, t) ==
    [a \in 1..(Len(idx) + 1) |->
        IF a < ax THEN idx[a] ELSE IF a = ax THEN t ELSE idx[a - 1]]

\* what a raising call leaves
Raised(exc) == [exc |-> exc, shape |-> <<>>, data |-> <<>>]

\* np.tensordot(a, k, axes=([axis], [0])) for a tuple k: a.shape[axis] is read
\* first (IndexError when a has no such axis), the two lengths are compared
\* (ValueError "shape-mismatch for sum"), and the axis is summed out
tensordot(a, k, axis) ==
    IF axis >= Len(a.shape) THEN Raised("IndexError")
    ELSE IF a.shape[axis + 1] # Len(k) THEN Raised("ValueError")
    ELSE LET shape == RemoveAxis(a.shape, axis + 1) IN
         [exc |-> "none",
          shape |-> shape,
          data |-> [idx \in IndexSet(shape) |->
                       DotFrom([t \in 1..Len(k) |->
                                   a.data[InsertAxis(idx, axis + 1, t - 1)]], k, 1)]]

\* Gaussian integers
GAdd(x, y) == <<x[1] + y[1], x[2] + y[2]>>
GMul(x, y) == <<x[1] * y[1] - x[2] * y[2], x[1] * y[2] + x[2] * y[1]>>

\* np.exp(np.pi * 1j * (h / 2)) = i^h
ExpHalfPi(h) ==
    CASE h % 4 = 0 -> <<1, 0>>
      [] h % 4 = 1 -> <<0, 1>>
      [] h % 4 = 2 -> <<-1, 0>>
      [] h % 4 = 3 -> <<0, -1>>

\* sum(list) of Python: 0 + list[0] + list[1] + ..., entry by entry at idx
RECURSIVE SumList(_, _, _, _)
SumList(list, idx, n, acc) ==
    IF n > Len(list) THEN acc
    ELSE SumList(list, idx, n + 1, GAdd(acc, list[n].data[idx]))

\* one element of the list summed by space_function, for the item kc =
\* <<k, coeffs_dict[k]>>: coeffs_dict[k] * np.exp(np.pi * 1j * tensordot(...))
Term(kc, dim, rr) ==
    LET t == tensordot(rr, kc[1], dim) IN
    IF t.exc # "none" THEN t
    ELSE [exc |-> "none",
          shape |-> t.shape,
          data |-> [idx \in IndexSet(t.shape) |-> GMul(kc[2], ExpHalfPi(t.data[idx]))]]

\* plane_wave(coeffs_dict): the closure, which holds the dictionary (its items
\* <<k, coeffs_dict[k]>> in the order of iteration) and dim, the length of the
\* first key
plane_wave(cd) == [coeffs_dict |-> cd, dim |-> Len(cd[1][1])]

\* space_function(r) of the closure f: the list is built key after key, so the
\* first key whose term raises decides the exception; else the terms, all of
\* one shape, are summed
space_function(f, rr) ==
    LET list == [n \in 1..Len(f.coeffs_dict) |-> Term(f.coeffs_dict[n], f.dim, rr)]
        bad == {n \in 1..Len(list) : list[n].exc # "none"}
    IN  IF bad # {}
        THEN Raised(list[CHOOSE n \in bad : \A o \in bad : n <= o].exc)
        ELSE [exc |-> "none",
              shape |-> list[1].shape,
              data |-> [idx \in IndexSet(list[1].shape) |->
                           SumList(list, idx, 1, <<0, 0>>)]]

\* the keys, the dictionaries (their keys are distinct), the shapes and the
\* arrays r
Keys == UNION {[1..d -> KeyVals] : d \in KeyDims}

CoeffDicts ==
    {cd \in UNION {[1..n -> Keys \X CoefVals] : n \in 1..MaxTerms} :
        \A a, b \in 1..Len(cd) : a # b => cd[a][1] # cd[b][1]}

RECURSIVE Prod(_, _)
Prod(s, a) == IF a > Len(s) THEN 1 ELSE s[a] * Prod(s, a + 1)

Shapes ==
    {s \in UNION {[1..n -> 1..MaxSize] : n \in Ranks} : Prod(s, 1) <= MaxSize}

Arrays ==
    UNION {{[shape |-> s, data |-> d] : d \in [IndexSet(s) -> RVals]} : s \in Shapes}

InitPw ==
    /\ coeffs_dict \in CoeffDicts
    /\ r \in Arrays
    /\ pw = Raised("none")
    /\ wpc = "in"
    /\ PotIdle
    /\ DftIdle
    /\ KinIdle

\* plane_wave(coeffs_dict)(r) returns
PwReturns ==
    /\ wpc = "in"
    /\ space_function(plane_wave(coeffs_dict), r).exc = "none"
    /\ pw' = space_function(plane_wave(coeffs_dict), r)
    /\ wpc' = "returned"
    /\ UNCHANGED <<coeffs_dict, r>>
    /\ UNCHANGED nonPwVars

\* plane_wave(coeffs_dict)(r) raises
PwRaises ==
    /\ wpc = "in"
    /\ space_function(plane_wave(coeffs_dict), r).exc # "none"
    /\ pw' = space_function(plane_wave(coeffs_dict), r)
    /\ wpc' = "raised"
    /\ UNCHANGED <<coeffs_dict, r>>
    /\ UNCHANGED nonPwVars

NextPw ==
    \/ PwReturns
    \/ PwRaises

SpecPw == InitPw /\ [][NextPw]_vars

----------------------------------------------------------------------------
(* kenetic.  An entry of the matrix is a rational <<numerator,             *)
(* denominator>> in lowest terms.                                          *)

Rat(num, den) == <<num \div Gcd(num, den), den \div Gcd(num, den)>>

\* np.diag(v): v on the diagonal, 0 elsewhere
Diag(v) ==
    [i \in 1..Len(v) |-> [j \in 1..Len(v) |-> IF i = j THEN v[i] ELSE Rat(0, 1)]]

\* kenetic with the energy hbar^2 (k.k)^2 / m
keneticNoHalf(kp, h, mass) ==
    Diag([x \in 1..Len(kp) |-> Rat(h * h * Dot(kp[x], kp[x]) * Dot(kp[x], kp[x]), mass)])

\* kenetic(k_points, hbar, m):
\* np.diag([(hbar**2 * np.dot(k, k) ** 2) / (2 * m) for k in k_points])
kenetic(kp, h, mass) ==
    Diag([x \in 1..Len(kp) |->
             Rat(h * h * Dot(kp[x], kp[x]) * Dot(kp[x], kp[x]), 2 * mass)])

\* the k-point sets given to kenetic: an array of vectors of one dimension
KinPointSets == UNION {SeqsUpTo([1..D -> KVals], MaxPts) : D \in KinDims}

InitKin ==
    /\ k_points \in KinPointSets
    /\ hbar \in HbarVals
    /\ m \in MassVals
    /\ kin = <<>>
    /\ kpc = "in"
    /\ r_pos = <<>>
    /\ cell_area = 0
    /\ pc = "idle"
    /\ args_list = <<>>
    /\ pending = {}
    /\ results = <<>>
    /\ first_exc = "none"
    /\ mat = <<>>
    /\ writes = <<>>
    /\ pos = 0
    /\ ret = <<>>
    /\ err = "none"
    /\ DftIdle
    /\ PwIdle

\* kenetic(k_points, hbar, m) returns
KenReturns ==
    /\ kpc = "in"
    /\ kin' = <<kenetic(k_points, hbar, m)>>
    /\ kpc' = "returned"
    /\ UNCHANGED <<k_points, hbar, m>>
    /\ UNCHANGED nonKinVars

NextKin == KenReturns

SpecKin == InitKin /\ [][NextKin]_vars

----------------------------------------------------------------------------
(* The program: one of the calls *)

Init ==
    \/ InitPot
    \/ InitDft
    \/ InitDft2
    \/ InitPw
    \/ InitKin

Next ==
    \/ NextPot
    \/ NextDft
    \/ NextDft2
    \/ NextPw
    \/ NextKin

Spec == Init /\ [][Next]_vars

----------------------------------------------------------------------------
(* Properties of dft and idft *)

\* the signals of length N
SignalsOfLen(N) == {x \in Signals : Len(x) = N}

\* what the round trip over the window [lo, hi) gives for the signal x:
\* the reconstructed signal, or nothing when dft raises
RoundTrip(x, lo, hi) ==
    IF dft(x, lo, hi).exc # "none" THEN <<>>
    ELSE idft(dft(x, lo, hi).val, Len(x), lo, hi)

\* C4: over the full band, k_min = 0 and k_max = N, the round trip gives the
\* signal back at every index.
C4_FullBandRoundTrip ==
    (fpc = "idft" /\ k_min = 0 /\ k_max = Len(signal)) =>
        /\ Len(reconstructed_signal) = Len(signal)
        /\ \A x \in 1..Len(signal) : reconstructed_signal[x] = signal[x]

\* C4 witness: a round trip over the full band of a signal of length 3 with
\* three different samples, whose spectrum holds a value divided by 3
C4_Witness ==
    /\ fpc = "idft"
    /\ k_min = 0
    /\ k_max = Len(signal)
    /\ Len(signal) = 3
    /\ Cardinality({signal[x] : x \in 1..3}) = 3
    /\ \E x \in 1..3 : truncated_dft_result[x].d = 3

\* C5 as claimed: for every window other than [0, N) there is a signal of
\* length N that the round trip does not give back.
C5_OnlyZeroToN ==
    (fpc \in {"idft", "raised"} /\ ~(k_min = 0 /\ k_max = Len(signal))) =>
        \E x \in SignalsOfLen(Len(signal)) : RoundTrip(x, k_min, k_max) # x

\* C5 amended: the round trip gives every signal back over every window of
\* width N, wherever it starts; over a window of another width there is a
\* signal of length N that it does not give back.
C5_ExactlyOnePeriod ==
    fpc \in {"idft", "raised"} =>
        /\ k_max - k_min = Len(signal) =>
              fpc = "idft" /\ reconstructed_signal = signal
        /\ k_max - k_min # Len(signal) =>
              \E x \in SignalsOfLen(Len(signal)) : RoundTrip(x, k_min, k_max) # x

\* C5 witness: the round trip over the shifted window [1, N + 1) has given
\* back a signal of length 3 with three different samples
C5_Witness ==
    /\ fpc = "idft"
    /\ k_min = 1
    /\ k_max = Len(signal) + 1
    /\ Len(signal) = 3
    /\ Cardinality({signal[x] : x \in 1..3}) = 3
    /\ reconstructed_signal = signal

\* C6 as claimed: for k_max <= k_min dft returns an empty spectrum, raises
\* nothing and evaluates no frequency term.
C6_EmptyWhenNotIncreasing ==
    (fpc \in {"dft", "idft", "raised"} /\ k_max <= k_min) =>
        /\ fpc # "raised"
        /\ ferr = "none"
        /\ truncated_dft_result = <<>>
        /\ freqs = <<>>

\* C6 amended: for k_max = k_min dft returns an empty spectrum, raises
\* nothing and evaluates no frequency term; for k_max < k_min it raises
\* ValueError, having evaluated no frequency term, and returns nothing.
C6_EmptyOrValueError ==
    (fpc \in {"dft", "idft", "raised"} /\ k_max <= k_min) =>
        /\ freqs = <<>>
        /\ truncated_dft_result = <<>>
        /\ k_max = k_min => fpc # "raised" /\ ferr = "none"
        /\ k_max < k_min => fpc = "raised" /\ ferr = "ValueError"

\* C6 witness: dft has returned an empty spectrum for k_max = k_min
C6_Witness ==
    /\ fpc = "dft"
    /\ k_max = k_min
    /\ Len(signal) = 3
    /\ truncated_dft_result = <<>>
    /\ ferr = "none"

\* sum over the cells (row, col) of an N x N grid, row by row, of
\* grid[row][col] * exp(-2*pi*i*(a*row + b*col)/N), from cell number t on
RECURSIVE Freq2Sum(_, _, _, _, _)
Freq2Sum(grid, a, b, t, acc) ==
    LET N == Len(grid)
        row == t \div N
        col == t % N
    IN  IF t >= N * N THEN acc
        ELSE Freq2Sum(grid, a, b, t + 1,
                 CAdd(acc, TimesExp(grid[row + 1][col + 1], -1, 1, a * row + b * col, N)))

\* the coefficient of frequency a along axis 0 and b along axis 1
Freq2(grid, a, b) ==
    CDiv(Freq2Sum(grid, a, b, 0, CZero(Order(Len(grid)))), Len(grid) * Len(grid))

\* C10: over the full band of a square grid, the entry [a][b] of dft2 is the
\* coefficient of frequency a along axis 0 and frequency b along axis 1, and
\* idft2 gives the grid back entry by entry in the same axis order.
C10_FullBandRoundTrip2D ==
    (fpc \in {"dft2", "idft2"} /\ k_min = 0 /\ k_max = Len(signal_2d)) =>
        /\ \A a, b \in 1..Len(signal_2d) :
              truncated_dft_2d[a][b] = Freq2(signal_2d, a - 1, b - 1)
        /\ fpc = "idft2" =>
              /\ Len(reconstructed_2d) = Len(signal_2d)
              /\ \A row, col \in 1..Len(signal_2d) :
                    reconstructed_2d[row][col] = signal_2d[row][col]

\* C10 witness: a round trip over the full band of a 2 x 2 grid that is not
\* symmetric
C10_Witness ==
    /\ fpc = "idft2"
    /\ k_min = 0
    /\ k_max = Len(signal_2d)
    /\ Len(signal_2d) = 2
    /\ signal_2d[1][2] # signal_2d[2][1]
    /\ reconstructed_2d = signal_2d

----------------------------------------------------------------------------
(* Properties of elec_nuc_potential *)

\* the value elec_nuc_potential_element computes for the pair (i, j)
PairResult(i, j) ==
    elec_nuc_potential_element(
        <<i, j, k_points[i + 1], k_points[j + 1], r_pos, cell_area>>)

Pairs == Idx(k_points) \X Idx(k_points)

\* C1: whatever the order in which the workers finish, there is exactly one
\* work item per ordered pair (i, j), built from the shared inputs with k_i as
\* bra and k_j as ket; a finished item holds the result of its own pair while
\* others are still running; each slot of the matrix is written exactly once;
\* and the matrix returned is the matrix of the values of the pairs.
C1_OrderIndependent ==
    /\ pc \notin {"idle", "start"} =>
          /\ Len(args_list) = Len(k_points) * Len(k_points)
          /\ \A c \in Pairs :
                /\ Cardinality({t \in DOMAIN args_list :
                       args_list[t][1] = c[1] /\ args_list[t][2] = c[2]}) = 1
                /\ \A t \in DOMAIN args_list :
                       (args_list[t][1] = c[1] /\ args_list[t][2] = c[2]) =>
                           args_list[t] = <<c[1], c[2], k_points[c[1] + 1],
                                            k_points[c[2] + 1], r_pos, cell_area>>
          /\ \A t \in DOMAIN results \ pending :
                results[t] = PairResult(args_list[t][1], args_list[t][2])
    /\ pc = "returned" =>
          /\ \A c \in Pairs : writes[c] = 1
          /\ ret = <<[c \in Pairs |-> PairResult(c[1], c[2]).val]>>

\* C1 witness: a matrix over two distinct k-points and two nuclei is returned,
\* with an off-diagonal entry that is not zero
C1_Witness ==
    /\ pc = "returned"
    /\ Len(k_points) = 2
    /\ k_points[1] # k_points[2]
    /\ Len(r_pos) = 2
    /\ cell_area > 0
    /\ ret[1][<<0, 1>>] # PZero

\* C2: an entry whose bra and ket k-points are equal, on the diagonal or off
\* it, is exactly 0 for every nuclear position set and every cell area, and
\* its work item divides by nothing and raises nothing.
C2_EqualKPointsZero ==
    /\ pc \in {"map", "collect", "returned", "raised"} =>
          \A t \in DOMAIN results \ pending :
              args_list[t][3] = args_list[t][4] =>
                  /\ results[t].val = PZero
                  /\ results[t].divs = <<>>
                  /\ results[t].exc = "none"
    /\ pc = "returned" =>
          \A c \in Pairs :
              k_points[c[1] + 1] = k_points[c[2] + 1] => ret[1][c] = PZero

\* C2 witness: a matrix over a duplicated k-point is returned for a cell area
\* of 0 and two nuclei
C2_Witness ==
    /\ pc = "returned"
    /\ Len(k_points) = 2
    /\ k_points[1] = k_points[2]
    /\ cell_area = 0
    /\ Len(r_pos) = 2

\* C3: for a positive cell area the matrix returned is Hermitian.
C3_Hermitian ==
    (pc = "returned" /\ cell_area > 0) =>
        \A c \in Pairs : ret[1][c] = PConj(ret[1][<<c[2], c[1]>>])

\* C3 witness: a matrix is returned with an off-diagonal entry that is the
\* sum of the terms of two nuclei and is not real
C3_Witness ==
    /\ pc = "returned"
    /\ cell_area > 0
    /\ Len(k_points) = 2
    /\ Len(r_pos) = 2
    /\ ret[1][<<0, 1>>] # PConj(ret[1][<<0, 1>>])
    /\ ret[1][<<0, 1>>] # PZero

\* C9: the caller gets a matrix only after every work item has finished
\* without an exception and every slot has been written with the value of its
\* item; once a work item has failed no matrix is ever returned, no slot is
\* written, and the call ends with the exception of a failed item.
C9_NoPartialMatrix ==
    /\ ret # <<>> =>
          /\ pc = "returned"
          /\ pending = {}
          /\ \A t \in DOMAIN results : results[t].exc = "none"
          /\ \A c \in Pairs : writes[c] >= 1
          /\ \A t \in DOMAIN results :
                ret[1][<<results[t].i, results[t].j>>] = results[t].val
    /\ (\E t \in DOMAIN results \ pending : results[t].exc # "none") =>
          /\ ret = <<>>
          /\ pc \in {"map", "raised"}
          /\ \A c \in Pairs : writes[c] = 0
          /\ first_exc # "none"
    /\ pc = "raised" =>
          /\ ret = <<>>
          /\ \E t \in DOMAIN results : results[t].exc = err
          /\ err # "none"
    /\ pc \in {"start", "map", "collect"} => ret = <<>>

\* C9 witness: the call has ended with the exception of one work item while
\* other work items had succeeded
C9_Witness ==
    /\ pc = "raised"
    /\ \E t \in DOMAIN results : results[t].exc = "none"
    /\ \E t \in DOMAIN results : results[t].exc = "ValueError"

----------------------------------------------------------------------------
(* Properties of plane_wave and kenetic *)

\* the value of the plane wave at the point pt, a vector of as many halves as
\* a key has components: the sum over k of coeffs[k] * exp(i * pi * (k . pt))
RECURSIVE PointValue(_, _, _)
PointValue(cd, pt, n) ==
    IF n > Len(cd) THEN <<0, 0>>
    ELSE GAdd(GMul(cd[n][2], ExpHalfPi(Dot(cd[n][1], pt))), PointValue(cd, pt, n + 1))

\* the keys of the dictionary have D components
KeysOfDim(cd, D) == \A n \in 1..Len(cd) : Len(cd[n][1]) = D

\* r is a single D-vector or a batch of D-vectors
VectorOrBatch(rr, D) ==
    \/ rr.shape = <<D>>
    \/ Len(rr.shape) = 2 /\ rr.shape[2] = D

\* C7: for keys of dimension D the function returned by plane_wave accepts a
\* single D-vector and a batch of shape (M, D): the call raises no axis or
\* shape error and returns one value per point, the sum over k of
\* coeffs[k] * exp(i * pi * (k . r)); at r = (0, 0) the plane wave of
\* {(1, 0): c} is c.
C7_AcceptsVectorsAndBatches ==
    \A D \in KeyDims :
        (wpc # "in" /\ KeysOfDim(coeffs_dict, D) /\ VectorOrBatch(r, D)) =>
            /\ wpc = "returned"
            /\ pw.exc = "none"
            /\ pw.shape = RemoveAxis(r.shape, Len(r.shape))
            /\ \A idx \in IndexSet(pw.shape) :
                   pw.data[idx] =
                       PointValue(coeffs_dict,
                                  [a \in 1..D |-> r.data[idx \o <<a - 1>>]], 1)

\* the call of the example of C8: kenetic([(0,), (1,)]) with hbar = m = 1
KineticExample ==
    /\ kpc = "returned"
    /\ k_points = <<<<0>>, <<1>>>>
    /\ hbar = 1
    /\ m = 1

\* C8 as stated: for k_points = [(0,), (1,)], hbar = 1.0 and m = 1.0 the
\* kinetic matrix is diag(0, 1).
C8_DiagZeroOne ==
    KineticExample =>
        kin = << << << <<0, 1>>, <<0, 1>> >>, << <<0, 1>>, <<1, 1>> >> >> >>

\* C8: for k_points = [(0,), (1,)], hbar = 1.0 and m = 1.0 the kinetic matrix
\* is diag(0, 1/2): entry (0,0) is 0, entry (1,1) is 1/2 and both
\* off-diagonal entries are 0.
C8_DiagZeroHalf ==
    KineticExample =>
        kin = << << << <<0, 1>>, <<0, 1>> >>, << <<0, 1>>, <<1, 2>> >> >> >>

C8_Witness == KineticExample /\ kin[1][2][2] = <<1, 2>>

====
